---- MODULE Spec2Model ----
(***************************************************************************)
(* Frame sampling of cvision: the step computation, the batch extraction   *)
(* and the lazy generator of cvision.video.VideoReader, the scoped         *)
(* acquisition of the backend handle, and the older cvision.io.Video.      *)
(*                                                                         *)
(* Numbers of seconds and frames per second are fixed-point: the integer   *)
(* v stands for v / Scale.  A frame is represented by its index in the     *)
(* file.  The decoding backend (cv2.VideoCapture) is modelled by a         *)
(* position and the set of indices it can decode.                          *)
(***************************************************************************)
EXTENDS Integers, Sequences, FiniteSets

\* ---------------------------------------------------------------- bounds
\* Fixed-point resolution of seconds and of frames per second.
Scale == 2
\* Largest frame count a file reports, and largest decodable index + 1.
MaxFrames == 4
\* Largest frame rate, in 1/Scale frames per second.
MaxFps == 3
\* Largest magnitude of the interval, in 1/Scale seconds.
MaxInterval == 4
\* Largest magnitude of the start time, in whole seconds.
MaxStart == 1
\* Pulls of the generator the caller makes at most (a generator that never
\* ends would otherwise make the state space infinite).
MaxPulls == MaxFrames + 2
\* Most paths of a collection.
MaxPaths == 2
\* Most frames of a video of a collection.
MaxCollFrames == 2
\* Largest interval passed to a collection, in whole seconds.
MaxCollInterval == 2

\* ----------------------------------------------------------- option type
\* Python's None is the empty sequence, a value v is <<v>>.
None == <<>>
Some(v) == <<v>>
Val(o) == o[1]

\* The outcome of a call: a returned value or a raised exception.
Return(v) == [exc |-> "none", val |-> v]
Raise(e) == [exc |-> e, val |-> 0]

\* One call of the decoding backend, as logged in calls.
Call(op, arg) == [op |-> op, arg |-> arg]

\* --------------------------------------------------------------- state
VARIABLES
    api,        \* the class the caller uses: "VideoReader", "io.Video", "Video"
    file,       \* the file at the path: exists, fps, frame_count, decodable
    interval,   \* the interval / stepsize argument: None or Some(seconds)
    start_time, \* the start_time argument, whole seconds
    pc,         \* the caller's position
    metadata,   \* self.metadata: None until fetched
    cap,        \* self.cap: "unset", "open" or "released"
    pos,        \* the backend's position: index of the frame read next
    steps,      \* the step last computed: None or Some(frames)
    frame_ids,  \* the indices the for loop of extract_frames has still to visit
    frames,     \* the list extract_frames builds (frame indices)
    yielded,    \* the frames the generator has yielded (frame indices)
    exc,        \* the exception in flight or propagated, "none" if none
    calls,      \* every backend call the current reader made, in order
    paths,      \* Video.paths: the files at the paths, in input order
    method,     \* the method of Video running: "none", "save_frames",
                \* "extract_frames"
    path_index, \* the position in paths of the path the for loop is at
    index,      \* the index enumerate gives to the next item
    result,     \* the list Video.extract_frames builds
    pulled,     \* the frames yielded for each path the loop has finished
    written,    \* every imwrite made so far, in order
    output_dir  \* the files in the output directory

vars == <<api, file, interval, start_time, pc, metadata, cap, pos, steps,
          frame_ids, frames, yielded, exc, calls, paths, method, path_index,
          index, result, pulled, written, output_dir>>

\* The state of a collection and of the output directory.
coll == <<paths, method, path_index, index, result, pulled, written, output_dir>>

env == <<api, file, interval, start_time>>

\* ------------------------------------------------------ pure functions
\* Python's int() of the quotient num / den (den > 0): truncation toward 0.
int(num, den) ==
    IF num >= 0 THEN num \div den ELSE -((-num) \div den)

\* VideoReader.get_steps: int(self.interval * self.metadata.fps); the
\* product of None and a float raises TypeError.
get_steps(iv, fps) ==
    IF iv = None THEN Raise("TypeError")
    ELSE Return(int(Val(iv) * fps, Scale * Scale))

\* io Video._get_steps: 1 for None, else int(stepsize * self.metadata.fps).
_get_steps(stepsize, fps) ==
    IF stepsize = None THEN Return(1)
    ELSE Return(int(Val(stepsize) * fps, Scale * Scale))

\* range(0, stop, step) as the sequence of its elements; step = 0 raises
\* ValueError, a negative step with stop >= 0 gives the empty range.
RECURSIVE RangeFrom(_, _, _)
RangeFrom(i, stop, step) ==
    IF i >= stop THEN <<>> ELSE <<i>> \o RangeFrom(i + step, stop, step)

\* A range that takes its stop as inclusive.
range_stop_inclusive(stop, step) ==
    IF step = 0 THEN Raise("ValueError")
    ELSE IF step < 0 THEN Return(<<>>)
    ELSE Return(RangeFrom(0, stop + 1, step))

range(stop, step) ==
    IF step = 0 THEN Raise("ValueError")
    ELSE IF step < 0 THEN Return(<<>>)
    ELSE Return(RangeFrom(0, stop, step))

\* ------------------------------------------------------------- backend
\* cap.get(CAP_PROP_FPS) and cap.get(CAP_PROP_FRAME_COUNT): 0 when the
\* capture could not open the file.
CAP_PROP_FPS(f) == IF f.exists THEN f.fps ELSE 0
CAP_PROP_FRAME_COUNT(f) == IF f.exists THEN f.frame_count ELSE 0

\* cap.read(): succeeds iff the handle is open and the frame at the position
\* can be decoded; a successful read advances the position by one.
ReadOk(c, p) == c = "open" /\ p \in file.decodable

\* cap.set(CAP_PROP_POS_FRAMES, target): the positions the backend may be
\* left at.  A negative target is outside the interface's contract: the
\* backend either clamps it to 0 or keeps it (and the next read fails).
SeekFrames(target) == IF target < 0 THEN {target, 0} ELSE {target}

\* cap.set(CAP_PROP_POS_MSEC, seconds * 1000): the frame shown at that time.
SeekMsec(seconds, fps) == int(seconds * fps, Scale)

\* VideoMetaData.from_path: opens a capture of its own, reads the
\* properties, computes duration = frame_count / fps (ZeroDivisionError
\* for fps = 0.0) and releases the capture.
from_path(f) ==
    IF CAP_PROP_FPS(f) = 0 THEN Raise("ZeroDivisionError")
    ELSE Return([fps |-> CAP_PROP_FPS(f),
                 frame_count |-> CAP_PROP_FRAME_COUNT(f)])

\* The backend calls from_path makes: the division raises before the
\* remaining properties are read and before the capture is released.
from_path_calls(f) ==
    <<Call("VideoCapture", 0), Call("get_FPS", 0), Call("get_FRAME_COUNT", 0)>>
    \o (IF from_path(f).exc # "none" THEN <<>>
        ELSE <<Call("get_FORMAT", 0), Call("get_FOURCC", 0),
               Call("get_FRAME_WIDTH", 0), Call("get_FRAME_HEIGHT", 0),
               Call("release", 0)>>)

\* A loop that goes on after a failed read.
extract_frames_never_break(ret) == FALSE

\* `if not ret: break` in the loop of extract_frames (both packages): the
\* loop is left when the read failed.
extract_frames_break(ret) == ~ret

\* A generator that goes on after a failed read.
generator_never_break(ret) == FALSE

\* `if not ret: break` in VideoReader.generator: the generator ends when
\* the read failed, and yields the frame otherwise.
generator_break(ret) == ~ret

\* ---------------------------------------------------------------- Init
\* The file of the documented example: 30 frames per second, 300 frames,
\* all of them decodable.
ScenarioA ==
    [exists |-> TRUE, fps |-> 30 * Scale, frame_count |-> 300,
     decodable |-> 0..299]

\* A path that names no file.
NoFile == [exists |-> FALSE, fps |-> 0, frame_count |-> 0, decodable |-> {}]

\* The files the caller's path may name: no file at all, every small file,
\* and the documented example.
Files ==
    {NoFile}
    \cup [exists : {TRUE}, fps : 0..MaxFps, frame_count : 0..MaxFrames,
          decodable : SUBSET (0..(MaxFrames - 1))]
    \cup {ScenarioA}

Intervals == {None} \cup {Some(v) : v \in (-MaxInterval)..MaxInterval}

\* The files the paths of a collection may name: no file at all, and the
\* videos at 1 frame per second whose frames can all be decoded, or all
\* but the last.
CollFiles ==
    {NoFile}
    \cup {[exists |-> TRUE, fps |-> Scale, frame_count |-> n,
           decodable |-> 0..(d - 1)] :
            <<n, d>> \in {nd \in (0..MaxCollFrames) \X (0..MaxCollFrames) :
                            nd[2] \in {nd[1], nd[1] - 1}}}

\* The lists of paths a collection is built from.
PathLists ==
    UNION {[1..n -> CollFiles] : n \in 0..MaxPaths}

\* The intervals passed to the methods of a collection: None, or whole
\* seconds from 0.
CollIntervals ==
    {None} \cup {Some(k * Scale) : k \in 0..MaxCollInterval}

\* A file of the output directory: its name is the index of "<index>.<fmt>"
\* (one image format), its content the frame written and the path it came
\* from; path 0 marks a file that was there before the call.
ImageFile(name, path, frame) == [name |-> name, path |-> path, frame |-> frame]

\* The output directory before the call: empty (or absent), or holding two
\* images, one with the first name and one with a name beyond every index.
OutputDirs ==
    {{}, {ImageFile(0, 0, 0), ImageFile(MaxPulls, 0, 0)}}

Init ==
    /\ api \in {"VideoReader", "io.Video", "Video"}
    /\ file \in Files
    /\ interval \in Intervals
    /\ paths \in PathLists
    /\ (api # "Video" => paths = <<>>)
    /\ (api = "Video" => /\ file = NoFile
                         /\ interval \in CollIntervals)
    /\ output_dir \in OutputDirs
    /\ (api = "VideoReader" => output_dir = {})
    /\ method = "none"
    /\ path_index = 0
    /\ index = 0
    /\ result = <<>>
    /\ pulled = <<>>
    /\ written = <<>>
    /\ start_time \in (-MaxStart)..MaxStart
    /\ (api # "VideoReader" => start_time = 0)
    /\ (file = ScenarioA => interval = Some(Scale))
    /\ pc = "start"
    /\ metadata = None
    /\ cap = "unset"
    /\ pos = 0
    /\ steps = None
    /\ frame_ids = <<>>
    /\ frames = <<>>
    /\ yielded = <<>>
    /\ exc = "none"
    /\ calls = <<>>

\* ------------------------------------------- cvision.video.VideoReader
\* VideoReader.__init__: stores the arguments and fetches the metadata; no
\* check that the path exists.
VideoReader__init__ ==
    /\ \/ api = "VideoReader" /\ pc = "start"
       \/ api = "Video" /\ pc = "path"
    /\ LET m == from_path(file) IN
         /\ calls' = calls \o from_path_calls(file)
         /\ IF m.exc = "none"
              THEN /\ metadata' = Some(m.val)
                   /\ pc' = "constructed"
                   /\ exc' = exc
              ELSE /\ metadata' = metadata
                   /\ pc' = "raised"
                   /\ exc' = m.exc
    /\ UNCHANGED <<env, coll, cap, pos, steps, frame_ids, frames, yielded>>

\* A __enter__ that never seeks to the start time.
VideoReader__enter__no_seek ==
    /\ api \in {"VideoReader", "Video"}
    /\ pc = "constructed"
    /\ cap' = "open"
    /\ pos' = 0
    /\ calls' = Append(calls, Call("VideoCapture", 0))
    /\ pc' = "entered"
    /\ UNCHANGED <<env, coll, metadata, steps, frame_ids, frames, yielded, exc>>

\* VideoReader.__enter__: opens the capture and, for a positive start
\* time, seeks to start_time * 1000 ms.
VideoReader__enter__ ==
    /\ api \in {"VideoReader", "Video"}
    /\ pc = "constructed"
    /\ cap' = "open"
    /\ IF start_time > 0
         THEN /\ pos' = SeekMsec(start_time, Val(metadata).fps)
              /\ calls' = calls \o <<Call("VideoCapture", 0),
                                     Call("set_POS_MSEC", start_time * 1000)>>
         ELSE /\ pos' = 0
              /\ calls' = Append(calls, Call("VideoCapture", 0))
    /\ pc' = "entered"
    /\ UNCHANGED <<env, coll, metadata, steps, frame_ids, frames, yielded, exc>>

\* A __exit__ that leaves the capture open.
VideoReader__exit__no_release ==
    /\ \/ api = "VideoReader"
       \/ api = "Video" /\ pc \in {"extracted", "generated", "unwinding"}
    /\ pc \in {"entered", "extracted", "generating", "generated", "unwinding"}
    /\ pc' = "exited"
    /\ UNCHANGED <<env, coll, metadata, cap, pos, steps, frame_ids, frames,
                   yielded, exc, calls>>

\* A __exit__ that swallows the exception (returns a true value).
VideoReader__exit__suppressing ==
    /\ \/ api = "VideoReader"
       \/ api = "Video" /\ pc \in {"extracted", "generated", "unwinding"}
    /\ pc \in {"entered", "extracted", "generating", "generated", "unwinding"}
    /\ cap' = "released"
    /\ calls' = Append(calls, Call("release", 0))
    /\ pc' = "exited"
    /\ exc' = "none"
    /\ UNCHANGED <<env, coll, metadata, pos, steps, frame_ids, frames, yielded>>

\* VideoReader.__exit__: releases the capture, prints the exception if
\* there is one, and returns None, so the exception goes on to the caller.
\* The caller may leave the scope at any point of it: at once, after the
\* batch extraction, between two pulls of the generator or after its end,
\* or with an exception in flight.  The with statements of Video leave it
\* when the batch extraction has returned, when the generator has ended,
\* or with an exception in flight.
VideoReader__exit__ ==
    /\ \/ api = "VideoReader"
       \/ api = "Video" /\ pc \in {"extracted", "generated", "unwinding"}
    /\ pc \in {"entered", "extracted", "generating", "generated", "unwinding"}
    /\ cap' = "released"
    /\ calls' = Append(calls, Call("release", 0))
    /\ pc' = "exited"
    /\ UNCHANGED <<env, coll, metadata, pos, steps, frame_ids, frames, yielded, exc>>

\* VideoReader.extract_frames up to the for loop: frames = [], the step,
\* and the range the loop runs over.
VideoReader_extract_frames ==
    /\ \/ api = "VideoReader"
       \/ api = "Video" /\ method = "extract_frames"
    /\ pc = "entered"
    /\ frames' = <<>>
    /\ LET s == get_steps(interval, Val(metadata).fps)
           r == range(Val(metadata).frame_count, s.val)
       IN  IF s.exc # "none"
             THEN /\ exc' = s.exc
                  /\ pc' = "unwinding"
                  /\ UNCHANGED <<steps, frame_ids>>
             ELSE /\ steps' = Some(s.val)
                  /\ IF r.exc # "none"
                       THEN /\ exc' = r.exc
                            /\ pc' = "unwinding"
                            /\ UNCHANGED frame_ids
                       ELSE /\ frame_ids' = r.val
                            /\ pc' = "extracting"
                            /\ UNCHANGED exc
    /\ UNCHANGED <<env, coll, metadata, cap, pos, yielded, calls>>

\* One iteration of the loop of VideoReader.extract_frames: seek to the
\* index and read.  A failed read breaks out of the loop, and the method
\* releases the capture and returns.
VideoReader_extract_frames_loop ==
    /\ api \in {"VideoReader", "Video"}
    /\ pc = "extracting"
    /\ frame_ids # <<>>
    /\ \E p \in SeekFrames(Head(frame_ids)) :
         LET ret == ReadOk(cap, p)
             seek_read == <<Call("set_POS_FRAMES", Head(frame_ids)),
                            Call("read", IF ret THEN 1 ELSE 0)>>
         IN  IF extract_frames_break(ret)
               THEN /\ pos' = IF ret THEN p + 1 ELSE p
                    /\ cap' = "released"
                    /\ pc' = "extracted"
                    /\ calls' = calls \o seek_read \o <<Call("release", 0)>>
                    /\ UNCHANGED <<frames, frame_ids>>
               ELSE /\ frames' = Append(frames, p)
                    /\ pos' = IF ret THEN p + 1 ELSE p
                    /\ frame_ids' = Tail(frame_ids)
                    /\ calls' = calls \o seek_read
                    /\ UNCHANGED <<cap, pc>>
    /\ UNCHANGED <<env, coll, metadata, steps, yielded, exc>>

\* An extract_frames that returns without releasing the capture.
VideoReader_extract_frames_return_no_release ==
    /\ api \in {"VideoReader", "Video"}
    /\ pc = "extracting"
    /\ frame_ids = <<>>
    /\ pc' = "extracted"
    /\ UNCHANGED <<env, coll, metadata, cap, pos, steps, frame_ids, frames, yielded,
                   exc, calls>>

\* The loop of VideoReader.extract_frames has visited the whole range: the
\* method releases the capture and returns frames.
VideoReader_extract_frames_return ==
    /\ api \in {"VideoReader", "Video"}
    /\ pc = "extracting"
    /\ frame_ids = <<>>
    /\ cap' = "released"
    /\ pc' = "extracted"
    /\ calls' = Append(calls, Call("release", 0))
    /\ UNCHANGED <<env, coll, metadata, pos, steps, frame_ids, frames, yielded, exc>>

\* One pull of VideoReader.generator (Video.save_frames pulls when it has
\* written the frame yielded before).  A pull after the first resumes after
\* the yield: with an interval it computes the step and seeks to the
\* current position plus the step.  Then the loop head: read; a failed read
\* ends the generator, a successful one yields the frame.
VideoReader_generator ==
    /\ \/ api = "VideoReader"
       \/ api = "Video" /\ method = "save_frames" /\ index = Len(yielded)
    /\ pc \in {"entered", "generating"}
    /\ Len(yielded) < MaxPulls
    /\ LET resumed == pc = "generating" /\ interval # None
           s == get_steps(interval, Val(metadata).fps)
           targets == IF resumed THEN SeekFrames(pos + s.val) ELSE {pos}
           seek == IF resumed
                     THEN <<Call("get_POS_FRAMES", pos),
                            Call("set_POS_FRAMES", pos + s.val)>>
                     ELSE <<>>
       IN  /\ steps' = IF resumed THEN Some(s.val) ELSE steps
           /\ \E p \in targets :
                LET ret == ReadOk(cap, p) IN
                /\ pos' = IF ret THEN p + 1 ELSE p
                /\ calls' = calls \o seek
                              \o <<Call("read", IF ret THEN 1 ELSE 0)>>
                /\ IF generator_break(ret)
                     THEN /\ pc' = "generated"
                          /\ UNCHANGED yielded
                     ELSE /\ yielded' = Append(yielded, p)
                          /\ pc' = "generating"
    /\ UNCHANGED <<env, coll, metadata, cap, frame_ids, frames, exc>>

\* ------------------------------------------------------ cvision.io.Video
\* io Video.__init__: RuntimeError("File not found") for a path that does
\* not exist, before the metadata is fetched.
io_Video__init__ ==
    /\ api = "io.Video"
    /\ pc = "start"
    /\ IF ~file.exists
         THEN /\ exc' = "RuntimeError: File not found"
              /\ pc' = "raised"
              /\ UNCHANGED <<metadata, calls>>
         ELSE LET m == from_path(file) IN
              /\ calls' = calls \o from_path_calls(file)
              /\ IF m.exc = "none"
                   THEN /\ metadata' = Some(m.val)
                        /\ pc' = "constructed"
                        /\ exc' = exc
                   ELSE /\ metadata' = metadata
                        /\ pc' = "raised"
                        /\ exc' = m.exc
    /\ UNCHANGED <<env, coll, cap, pos, steps, frame_ids, frames, yielded>>

\* io Video.extract_frames up to the with statement: frames = [] and the
\* step; then io VideoReader.__init__ and __enter__ open the capture.
io_Video_extract_frames ==
    /\ api = "io.Video"
    /\ pc = "constructed"
    /\ method' = "extract_frames"
    /\ frames' = <<>>
    /\ steps' = Some(_get_steps(interval, Val(metadata).fps).val)
    /\ cap' = "open"
    /\ pos' = 0
    /\ calls' = Append(calls, Call("VideoCapture", 0))
    /\ pc' = "entered"
    /\ UNCHANGED <<env, paths, path_index, index, result, pulled, written,
                   output_dir, metadata, frame_ids, yielded, exc>>

\* The range of the for loop of io Video.extract_frames, evaluated inside
\* the with statement.
io_Video_extract_frames_range ==
    /\ api = "io.Video"
    /\ pc = "entered"
    /\ LET r == range(Val(metadata).frame_count, Val(steps)) IN
         IF r.exc # "none"
           THEN /\ exc' = r.exc
                /\ pc' = "unwinding"
                /\ UNCHANGED frame_ids
           ELSE /\ frame_ids' = r.val
                /\ pc' = "extracting"
                /\ UNCHANGED exc
    /\ UNCHANGED <<env, coll, metadata, cap, pos, steps, frames, yielded, calls>>

\* One iteration of the loop of io Video.extract_frames; a failed read
\* breaks out of the loop, to the end of the with statement.
io_Video_extract_frames_loop ==
    /\ api = "io.Video"
    /\ pc = "extracting"
    /\ frame_ids # <<>>
    /\ \E p \in SeekFrames(Head(frame_ids)) :
         LET ret == ReadOk(cap, p)
             seek_read == <<Call("set_POS_FRAMES", Head(frame_ids)),
                            Call("read", IF ret THEN 1 ELSE 0)>>
         IN  /\ pos' = IF ret THEN p + 1 ELSE p
             /\ calls' = calls \o seek_read
             /\ IF extract_frames_break(ret)
                  THEN /\ pc' = "extracted"
                       /\ UNCHANGED <<frames, frame_ids>>
                  ELSE /\ frames' = Append(frames, p)
                       /\ frame_ids' = Tail(frame_ids)
                       /\ UNCHANGED pc
    /\ UNCHANGED <<env, coll, metadata, cap, steps, yielded, exc>>

\* The loop of io Video.extract_frames has visited the whole range.
io_Video_extract_frames_end ==
    /\ api = "io.Video"
    /\ pc = "extracting"
    /\ frame_ids = <<>>
    /\ pc' = "extracted"
    /\ UNCHANGED <<env, coll, metadata, cap, pos, steps, frame_ids, frames, yielded,
                   exc, calls>>

\* io VideoReader.__exit__, at the end of the with statement of io
\* Video.extract_frames: releases the capture and returns None.
io_VideoReader__exit__ ==
    /\ api = "io.Video"
    /\ pc \in {"extracted", "unwinding"}
    /\ cap' = "released"
    /\ calls' = Append(calls, Call("release", 0))
    /\ pc' = "exited"
    /\ UNCHANGED <<env, coll, metadata, pos, steps, frame_ids, frames, yielded, exc>>

\* io Video.save_frames up to the for loop: makedirs leaves the files of
\* the directory alone; io VideoReader.__init__ and __enter__ open the
\* capture; iter(reader) is the reader, enumerate starts at 0.
io_Video_save_frames ==
    /\ api = "io.Video"
    /\ pc = "constructed"
    /\ method' = "save_frames"
    /\ cap' = "open"
    /\ pos' = 0
    /\ calls' = Append(calls, Call("VideoCapture", 0))
    /\ index' = 0
    /\ pc' = "iterating"
    /\ UNCHANGED <<env, paths, path_index, result, pulled, written, output_dir,
                   metadata, steps, frame_ids, frames, yielded, exc>>

\* io VideoReader.__next__, called by the for loop of io Video.save_frames:
\* reads, and returns the frame if the read succeeded; if it failed the
\* method falls off its end and returns None.  It never raises
\* StopIteration.
io_VideoReader__next__ ==
    /\ api = "io.Video"
    /\ pc = "iterating"
    /\ index = Len(yielded)
    /\ Len(yielded) < MaxPulls
    /\ LET ret == ReadOk(cap, pos) IN
         /\ pos' = IF ret THEN pos + 1 ELSE pos
         /\ calls' = Append(calls, Call("read", IF ret THEN 1 ELSE 0))
         /\ yielded' = Append(yielded, IF ret THEN Some(pos) ELSE None)
    /\ UNCHANGED <<env, coll, pc, metadata, cap, steps, frame_ids, frames, exc>>

\* The body of the for loop of io Video.save_frames: imwrite of the item
\* to "<index>.<fmt>".  imwrite of None raises cv2.error (an empty image).
io_Video_save_frames_imwrite ==
    /\ api = "io.Video"
    /\ pc = "iterating"
    /\ index < Len(yielded)
    /\ LET frame == yielded[Len(yielded)] IN
         IF frame = None
           THEN /\ exc' = "cv2.error"
                /\ pc' = "unwinding"
                /\ UNCHANGED <<index, written, output_dir>>
           ELSE /\ output_dir' = {f \in output_dir : f.name # index}
                                   \cup {ImageFile(index, 1, Val(frame))}
                /\ written' = Append(written, ImageFile(index, 1, Val(frame)))
                /\ index' = index + 1
                /\ UNCHANGED <<exc, pc>>
    /\ UNCHANGED <<env, paths, method, path_index, result, pulled, metadata,
                   cap, pos, steps, frame_ids, frames, yielded, calls>>

\* --------------------------------------------------- cvision.video.Video
\* Video.__init__: stores the paths; no check that they exist and no
\* backend call.
Video__init__ ==
    /\ api = "Video"
    /\ pc = "start"
    /\ pc' = "video"
    /\ UNCHANGED <<env, coll, metadata, cap, pos, steps, frame_ids, frames,
                   yielded, exc, calls>>

\* The for statement over self.paths, taking the i-th path: the loop ends
\* after the last one, else VideoReader(path, interval=interval) is next.
ForPath(i) ==
    IF i > Len(paths)
      THEN /\ pc' = "done"
           /\ UNCHANGED <<file, path_index>>
      ELSE /\ pc' = "path"
           /\ file' = paths[i]
           /\ path_index' = i

\* The reader of the path before is dropped; the next VideoReader is a
\* new object, with its own capture.
NewReader ==
    /\ metadata' = None
    /\ cap' = "unset"
    /\ pos' = 0
    /\ steps' = None
    /\ frame_ids' = <<>>
    /\ frames' = <<>>
    /\ yielded' = <<>>
    /\ calls' = <<>>

\* Video.save_frames up to the with statement of the first path: mkdir
\* with exist_ok leaves the files of the directory alone.
Video_save_frames ==
    /\ api = "Video"
    /\ pc = "video"
    /\ method' = "save_frames"
    /\ index' = 0
    /\ ForPath(1)
    /\ UNCHANGED <<api, interval, start_time, paths, result, pulled, written,
                   output_dir, metadata, cap, pos, steps, frame_ids, frames,
                   yielded, exc, calls>>

\* An imwrite whose file name counts the images of all paths.
Video_save_frames_imwrite_running_index ==
    /\ api = "Video"
    /\ method = "save_frames"
    /\ pc = "generating"
    /\ index < Len(yielded)
    /\ LET frame == yielded[Len(yielded)]
           image == ImageFile(Len(written), path_index, frame)
       IN  /\ output_dir' = {f \in output_dir : f.name # image.name}
                              \cup {image}
           /\ written' = Append(written, image)
    /\ index' = index + 1
    /\ UNCHANGED <<env, paths, method, path_index, result, pulled, pc, metadata,
                   cap, pos, steps, frame_ids, frames, yielded, exc, calls>>

\* The body of the for loop of Video.save_frames: imwrite of the frame the
\* generator has just yielded to "<index>.<fmt>"; enumerate then counts on.
Video_save_frames_imwrite ==
    /\ api = "Video"
    /\ method = "save_frames"
    /\ pc = "generating"
    /\ index < Len(yielded)
    /\ LET frame == yielded[Len(yielded)]
           image == ImageFile(index, path_index, frame)
       IN  /\ output_dir' = {f \in output_dir : f.name # image.name}
                              \cup {image}
           /\ written' = Append(written, image)
    /\ index' = index + 1
    /\ UNCHANGED <<env, paths, method, path_index, result, pulled, pc, metadata,
                   cap, pos, steps, frame_ids, frames, yielded, exc, calls>>

\* Video.save_frames after the with statement of a path: an exception goes
\* on to the caller; else the for loop takes the next path, with a new
\* generator and a new enumerate, or the method returns.
Video_save_frames_next ==
    /\ api = "Video"
    /\ method = "save_frames"
    /\ pc = "exited"
    /\ IF exc # "none"
         THEN /\ pc' = "raised"
              /\ UNCHANGED <<file, path_index, index, pulled, metadata, cap,
                             pos, steps, frame_ids, frames, yielded, calls>>
         ELSE /\ pulled' = Append(pulled, yielded)
              /\ index' = 0
              /\ ForPath(path_index + 1)
              /\ NewReader
    /\ UNCHANGED <<api, interval, start_time, paths, method, result, written,
                   output_dir, exc>>

\* Video.extract_frames up to the with statement of the first path:
\* result = [].
Video_extract_frames ==
    /\ api = "Video"
    /\ pc = "video"
    /\ method' = "extract_frames"
    /\ result' = <<>>
    /\ ForPath(1)
    /\ UNCHANGED <<api, interval, start_time, paths, index, pulled, written,
                   output_dir, metadata, cap, pos, steps, frame_ids, frames,
                   yielded, exc, calls>>

\* A Video.extract_frames that leaves out the videos without frames.
Video_extract_frames_append_nonempty ==
    /\ api = "Video"
    /\ method = "extract_frames"
    /\ pc = "exited"
    /\ IF exc # "none"
         THEN /\ pc' = "raised"
              /\ UNCHANGED <<file, path_index, result, metadata, cap, pos,
                             steps, frame_ids, frames, yielded, calls>>
         ELSE /\ result' = IF frames = <<>> THEN result
                           ELSE Append(result, [path |-> path_index,
                                                frames |-> frames])
              /\ ForPath(path_index + 1)
              /\ NewReader
    /\ UNCHANGED <<api, interval, start_time, paths, method, index, pulled,
                   written, output_dir, exc>>

\* Video.extract_frames after the with statement of a path: an exception
\* goes on to the caller; else result.append((path, frames)), and the for
\* loop takes the next path or the method returns result.
Video_extract_frames_append ==
    /\ api = "Video"
    /\ method = "extract_frames"
    /\ pc = "exited"
    /\ IF exc # "none"
         THEN /\ pc' = "raised"
              /\ UNCHANGED <<file, path_index, result, metadata, cap, pos,
                             steps, frame_ids, frames, yielded, calls>>
         ELSE /\ result' = Append(result, [path |-> path_index,
                                           frames |-> frames])
              /\ ForPath(path_index + 1)
              /\ NewReader
    /\ UNCHANGED <<api, interval, start_time, paths, method, index, pulled,
                   written, output_dir, exc>>

\* ============================================================ claims
\* Helpers of the claims' formulas.
Max(a, b) == IF a >= b THEN a ELSE b

\* floor(num / den) for den > 0 (TLA+'s \div rounds toward minus infinity).
Floor(num, den) == num \div den

\* ceil(n / s) for s > 0.
Ceil(n, s) == (n + s - 1) \div s

\* The candidate indices 0, s, 2s, ... below n, for s >= 1.
Candidates(n, s) == [k \in 1..Ceil(n, s) |-> (k - 1) * s]

IsPrefix(a, b) ==
    Len(a) <= Len(b) /\ \A i \in 1..Len(a) : a[i] = b[i]

\* The arguments of the calls named op, in the order they were made.
ArgsOf(op, log) ==
    LET sel == SelectSeq(log, LAMBDA c : c.op = op)
    IN  [i \in 1..Len(sel) |-> sel[i].arg]

Sought == ArgsOf("set_POS_FRAMES", calls)
Reads == ArgsOf("read", calls)

\* The step is known and the caller is in, or has finished, the loop of
\* batch extraction.
InBatch == pc \in {"extracting", "extracted"} /\ steps # None

\* C1: for every frameRate > 0 and intervalSeconds > 0, the step computed
\* by get_steps / _get_steps is floor(intervalSeconds * frameRate) clamped
\* to a minimum of 1, never 0.
C1_StepIsClampedFloor ==
    (/\ steps # None
     /\ metadata # None
     /\ interval # None
     /\ Val(interval) > 0
     /\ Val(metadata).fps > 0)
    => Val(steps) = Max(1, Floor(Val(interval) * Val(metadata).fps,
                                 Scale * Scale))

\* C2: with a null interval the step computation returns 1, and batch
\* extraction and the generator, on a backend whose reads succeed exactly
\* below frameCount, return the frames 0..frameCount-1 in order, without
\* raising.
C2_NullIntervalVisitsEveryFrame ==
    (/\ api = "VideoReader"
     /\ interval = None
     /\ metadata # None
     /\ start_time = 0
     /\ file.decodable = 0..(file.frame_count - 1))
    => /\ pc # "unwinding"
       /\ exc = "none"
       /\ (steps # None => Val(steps) = 1)
       /\ (pc = "extracted" => frames = Candidates(file.frame_count, 1))
       /\ (pc = "generated" => yielded = Candidates(file.frame_count, 1))

\* C3: for a step s >= 1 and frame count n, batch extraction seeks to and
\* reads the candidate indices 0, s, 2s, ... below n in that order (all of
\* them when every read succeeds); the returned sequence is strictly
\* ascending, holds no index twice and is at most ceil(n / s) long; the
\* documented example (30 fps, 300 frames, interval 1 s) returns the 10
\* frames 0, 30, ..., 270.
C3_BatchVisitsCandidatesInOrder ==
    (InBatch /\ Val(steps) >= 1)
    => LET n == Val(metadata).frame_count
           s == Val(steps)
       IN  /\ IsPrefix(Sought, Candidates(n, s))
           /\ Len(Reads) = Len(Sought)
           /\ \A i \in 1..Len(frames) : frames[i] = Sought[i]
           /\ \A i, j \in 1..Len(frames) : i < j => frames[i] < frames[j]
           /\ Len(frames) <= Ceil(n, s)
           /\ (pc = "extracted" /\ (\A i \in 1..Ceil(n, s) :
                                       Candidates(n, s)[i] \in file.decodable)
                 => frames = Candidates(n, s))
           /\ (pc = "extracted" /\ file = ScenarioA /\ interval = Some(Scale)
                 => /\ s = 30
                    /\ frames = [k \in 1..10 |-> 30 * (k - 1)])

C3_Witness ==
    /\ pc = "extracted"
    /\ metadata # None
    /\ steps = Some(2)
    /\ frames = <<0, 2>>
    /\ Val(metadata).frame_count = 4

\* C4: when the read at a candidate index fails during batch extraction,
\* although the index is below frameCount, the loop stops at once: no
\* later index is sought or read, no error is raised, and the result is
\* exactly the frames read at the candidates before it.
C4_BatchStopsAtFirstFailedRead ==
    (pc = "extracted" /\ steps # None /\ Val(steps) >= 1)
    => LET n == Val(metadata).frame_count
           c == Candidates(n, Val(steps))
           k == Len(frames)
       IN  /\ exc = "none"
           /\ k <= Len(c)
           /\ \A i \in 1..k : frames[i] = c[i] /\ frames[i] \in file.decodable
           /\ (k < Len(c) => /\ c[k + 1] \notin file.decodable
                             /\ Sought = [i \in 1..(k + 1) |-> c[i]]
                             /\ Reads = [i \in 1..(k + 1) |->
                                           IF i <= k THEN 1 ELSE 0])
           /\ (k = Len(c) => Sought = c)

C4_Witness ==
    /\ api = "VideoReader"
    /\ pc = "extracted"
    /\ metadata # None
    /\ steps = Some(1)
    /\ Val(metadata).frame_count = 4
    /\ file.decodable = {0, 2, 3}
    /\ frames = <<0>>
    /\ exc = "none"

\* The position the backend is at when the generator starts.
StartPos ==
    IF start_time > 0 THEN SeekMsec(start_time, Val(metadata).fps) ELSE 0

\* The caller is pulling the generator, or has pulled it to its end.
InGenerator == api = "VideoReader" /\ pc \in {"generating", "generated"}

\* C5: in the generator with a positive interval and step s, the first
\* frame yielded is the one at the backend's position when the generator
\* starts and any two successive yielded frames are exactly s indices
\* apart; with a null interval no seek is issued and successive frames are
\* exactly 1 apart.
C5_GeneratorAdvancesByStep ==
    InGenerator
    => /\ (yielded # <<>> => yielded[1] = StartPos)
       /\ (interval = None
             => /\ Sought = <<>>
                /\ \A i \in 1..(Len(yielded) - 1) :
                      yielded[i + 1] - yielded[i] = 1)
       /\ (interval # None /\ Val(interval) > 0
           /\ get_steps(interval, Val(metadata).fps).val >= 1
             => \A i \in 1..(Len(yielded) - 1) :
                   yielded[i + 1] - yielded[i]
                     = get_steps(interval, Val(metadata).fps).val)

\* C6: the generator ends the first time a read fails: that pull ends the
\* sequence without an error, every frame yielded before it came from a
\* successful read, and no frame is yielded after it (the failed read is
\* the last read, and the only failed one).
C6_GeneratorEndsAtFirstFailedRead ==
    InGenerator
    => /\ exc = "none"
       /\ \A i \in 1..Len(yielded) : yielded[i] \in file.decodable
       /\ Len(Reads) = Len(yielded) + (IF pc = "generated" THEN 1 ELSE 0)
       /\ \A i \in 1..Len(Reads) :
             Reads[i] = (IF i <= Len(yielded) THEN 1 ELSE 0)

C6_Witness ==
    /\ InGenerator
    /\ pc = "generated"
    /\ interval = None
    /\ file.decodable = {0, 1, 3}
    /\ yielded = <<0, 1>>

\* C7: the generator is finite for every interval, also one whose step is
\* not positive: every pull makes forward progress, so no frame is yielded
\* twice and no more frames are yielded than the file can decode.
C7_GeneratorMakesProgress ==
    api = "VideoReader"
    => /\ \A i, j \in 1..Len(yielded) : i < j => yielded[i] < yielded[j]
       /\ Len(yielded) <= Cardinality(file.decodable)

\* C8: when the backend reports frameRate = 0, the step computation fails
\* with InvalidFrameRate: no step is returned and no other error is raised
\* at another point.
C8_ZeroFrameRateIsInvalidFrameRate ==
    (file.exists /\ file.fps = 0 /\ api \in {"VideoReader", "io.Video"})
    => /\ steps = None
       /\ exc \in {"none", "InvalidFrameRate"}

\* C9: constructing a reader or a video with a path that does not exist
\* fails with the file-not-found error, before any backend call.
C9_MissingPathFailsBeforeBackend ==
    (~file.exists /\ pc # "start")
    => /\ pc = "raised"
       /\ exc = "RuntimeError: File not found"
       /\ calls = <<>>

\* C10: whenever the scope of a reader (of either package) is exited, on
\* every path, the handle opened at entry is released, and an exception
\* raised during frame production is not suppressed by the exit: it is
\* still in flight after it.
C10_ExitReleasesAndPropagates ==
    /\ [](pc = "exited" => cap = "released")
    /\ [][(pc # "exited" /\ pc' = "exited")
            => /\ cap = "open" \/ pc = "extracted"
               /\ cap' = "released"
               /\ calls' = Append(calls, Call("release", 0))
               /\ exc' = exc
               /\ (pc = "unwinding" => exc' # "none")]_vars

C10_Witness ==
    /\ api = "VideoReader"
    /\ pc = "exited"
    /\ cap = "released"
    /\ exc = "ValueError"

\* The number of backend handles open after the calls of log, n of them
\* being open before: VideoCapture opens one, release closes one (and does
\* nothing on a handle already released).
RECURSIVE HandlesAfter(_, _)
HandlesAfter(log, n) ==
    IF log = <<>> THEN n
    ELSE HandlesAfter(Tail(log),
                      IF Head(log).op = "VideoCapture" THEN n + 1
                      ELSE IF Head(log).op = "release" THEN Max(0, n - 1)
                      ELSE n)

OpenHandles == HandlesAfter(calls, 0)

\* The caller is inside the scope of the reader.
InScope ==
    pc \in {"entered", "extracting", "extracted", "generating", "generated",
            "unwinding"}

C14_ZeroFrameCountIsEmpty ==
    (/\ api = "VideoReader"
     /\ metadata # None
     /\ Val(metadata).frame_count = 0
     /\ file.decodable = {})
    => /\ exc = "none"
       /\ pc # "unwinding"
       /\ (pc = "extracted" => frames = <<>>)
       /\ pc # "generating"
       /\ yielded = <<>>

SoughtMsec == ArgsOf("set_POS_MSEC", calls)

\* C16 (as claimed): on scoped entry the reader seeks to
\* startTimeSeconds * 1000 ms exactly when startTimeSeconds is nonzero,
\* and the first pull of the generator reads the frame at the position
\* that seek left, no other seek being issued before that read.
C16_SeeksWhenStartTimeNonzero ==
    (api = "VideoReader" /\ (InScope \/ pc = "exited"))
    => /\ SoughtMsec = (IF start_time # 0 THEN <<start_time * 1000>>
                        ELSE <<>>)
       /\ (pc = "entered" => pos = StartPos)
       /\ (InGenerator /\ Len(Reads) = 1
             => /\ Sought = <<>>
                /\ (yielded # <<>> => yielded = <<StartPos>>))

\* C16 (amended): on scoped entry the reader seeks to
\* startTimeSeconds * 1000 ms exactly when startTimeSeconds is positive (no
\* seek when it is 0 or negative), and the first pull of the generator
\* reads the frame at the position that seek left (the beginning without
\* a seek), no other seek being issued before that read.
C16_SeeksWhenStartTimePositive ==
    (api = "VideoReader" /\ (InScope \/ pc = "exited"))
    => /\ SoughtMsec = (IF start_time > 0 THEN <<start_time * 1000>>
                        ELSE <<>>)
       /\ (pc = "entered"
             => pos = (IF start_time > 0
                         THEN int(start_time * Val(metadata).fps, Scale)
                         ELSE 0))
       /\ (InGenerator /\ Len(Reads) = 1
             => /\ Sought = <<>>
                /\ (yielded # <<>>
                      => yielded = <<IF start_time > 0
                                       THEN int(start_time
                                                  * Val(metadata).fps, Scale)
                                       ELSE 0>>))

C16_Witness ==
    /\ InGenerator
    /\ start_time = 1
    /\ SoughtMsec = <<1000>>
    /\ Len(Reads) = 1
    /\ yielded = <<1>>

\* C19: for a reader opened with start time 0 and a positive interval (step
\* s >= 1), on a backend whose reads succeed exactly below frameCount, the
\* generator pulled to its end yields the frames batch extraction returns
\* for the same video and interval: the whole range 0, s, 2s, ... below
\* frameCount.
C19_GeneratorEqualsBatch ==
    (/\ api = "VideoReader"
     /\ pc = "generated"
     /\ start_time = 0
     /\ interval # None
     /\ Val(interval) > 0
     /\ get_steps(interval, Val(metadata).fps).val >= 1
     /\ file.decodable = 0..(Val(metadata).frame_count - 1))
    => yielded = range(Val(metadata).frame_count,
                       get_steps(interval, Val(metadata).fps).val).val

\* The images written for the path at position j, in the order written.
WritesOf(j) == SelectSeq(written, LAMBDA w : w.path = j)

\* The images that writing the frames of seq under the names 0, 1, 2, ...
\* gives for the path at position j.
Numbered(seq, j) == [k \in 1..Len(seq) |-> ImageFile(k - 1, j, seq[k])]

\* C12: in Video.save_frames the k-th frame pulled from a path's generator
\* (k from 0) is written to "<k>.<fmt>": for every path the names are
\* 0, 1, 2, ... without gaps, starting again at 0 for each path.
C12_SaveFramesNumbersFromZeroPerPath ==
    (api = "Video" /\ method = "save_frames")
    => /\ \A j \in 1..Len(pulled) : WritesOf(j) = Numbered(pulled[j], j)
       /\ (path_index = Len(pulled) + 1
             => /\ index \in {Len(yielded), Len(yielded) - 1}
                /\ WritesOf(path_index)
                     = Numbered(SubSeq(yielded, 1, index), path_index))
       /\ (pc \in {"generated", "exited"} => index = Len(yielded))

C12_Witness ==
    /\ api = "Video"
    /\ method = "save_frames"
    /\ pc = "done"
    /\ pulled = << <<0, 1>>, <<0>> >>
    /\ written = <<ImageFile(0, 1, 0), ImageFile(1, 1, 1), ImageFile(0, 2, 0)>>

\* The frames batch extraction returns for file f and index list ids: the
\* frames up to the first that cannot be read.
RECURSIVE ReadablePrefix(_, _)
ReadablePrefix(ids, f) ==
    IF ids = <<>> \/ Head(ids) \notin f.decodable THEN <<>>
    ELSE <<Head(ids)>> \o ReadablePrefix(Tail(ids), f)

\* The batch-extracted frames of file f at interval iv (step >= 1).
BatchOf(f, iv) ==
    ReadablePrefix(Candidates(f.frame_count,
                              int(Val(iv) * f.fps, Scale * Scale)), f)

\* C13: Video.extract_frames over p1..pn with no failing path returns
\* exactly n entries, the i-th being (pi, batch-extracted frames of pi),
\* in input order.
C13_ExtractFramesOneEntryPerPath ==
    (api = "Video" /\ method = "extract_frames")
    => /\ Len(result) <= Len(paths)
       /\ \A i \in 1..Len(result) :
            result[i] = [path |-> i, frames |-> BatchOf(paths[i], interval)]
       /\ (pc = "done" => Len(result) = Len(paths) /\ exc = "none")

C13_Witness ==
    /\ api = "Video"
    /\ method = "extract_frames"
    /\ pc = "done"
    /\ Len(paths) = 2
    /\ paths[1].frame_count = 2
    /\ paths[2].frame_count = 1
    /\ result = <<[path |-> 1, frames |-> <<0, 1>>],
                  [path |-> 2, frames |-> <<>>]>>

\* C17: the methods of Video process the paths one after the other: the
\* handle of a path is released before a handle of the next path is
\* opened; when a path raises, the error goes on to the caller and no
\* later path is opened.
C17_PathsAreProcessedSequentially ==
    /\ [](api = "Video"
            => /\ OpenHandles <= 1
               /\ (pc \in {"video", "path", "done"}
                     => cap # "open" /\ OpenHandles = 0)
               /\ (pc = "raised" => exc # "none")
               /\ (pc = "done" => exc = "none"))
    /\ [][api = "Video"
            => /\ (path_index' # path_index
                     => /\ path_index' = path_index + 1
                        /\ OpenHandles = 0
                        /\ cap # "open"
                        /\ exc = "none")
               /\ (exc # "none"
                     => /\ exc' = exc
                        /\ path_index' = path_index
                        /\ file' = file
                        /\ pc' \in {"exited", "raised"}
                        /\ ArgsOf("VideoCapture", calls')
                             = ArgsOf("VideoCapture", calls))]_vars

C17_Witness ==
    /\ api = "Video"
    /\ method = "save_frames"
    /\ path_index = 2
    /\ Len(pulled) = 1
    /\ pulled[1] # <<>>
    /\ cap = "open"
    /\ OpenHandles = 1

\* C18: iterating an io VideoReader yields each decoded frame in order,
\* every item being a frame, and the iteration ends when a read first
\* fails, so that io Video.save_frames writes one image per frame and
\* returns.
C18_IterationYieldsFramesAndEnds ==
    (api = "io.Video" /\ method = "save_frames")
    => /\ \A k \in 1..Len(yielded) : yielded[k] = Some(k - 1)
       /\ exc = "none"
       /\ (pc = "exited" => Len(written) = Len(yielded))

\* The names of the files in the output directory.
Names(dir) == {f.name : f \in dir}

\* The largest number of frames a path yielded, 0 without paths.
RECURSIVE MaxLen(_)
MaxLen(seqs) ==
    IF seqs = <<>> THEN 0 ELSE Max(Len(Head(seqs)), MaxLen(Tail(seqs)))

\* The last path, in input order, that yielded more than k frames.
LastWith(k) ==
    CHOOSE j \in 1..Len(pulled) :
        /\ Len(pulled[j]) > k
        /\ \A l \in (j + 1)..Len(pulled) : Len(pulled[l]) <= k

\* C20: Video.save_frames never deletes a file; after a call over p1..pn
\* where pj yielded cj frames, the files written are exactly those of the
\* indices 0..max(cj)-1, and file k holds the k-th frame of the last path
\* in input order that yielded more than k frames.
C20_LaterPathsOverwriteEarlierFrames ==
    /\ [](api = "Video" /\ method = "save_frames" /\ pc = "done"
            => /\ Len(pulled) = Len(paths)
               /\ {w.name : w \in {written[i] : i \in 1..Len(written)}}
                    = 0..(MaxLen(pulled) - 1)
               /\ \A k \in 0..(MaxLen(pulled) - 1) :
                    /\ ImageFile(k, LastWith(k), pulled[LastWith(k)][k + 1])
                         \in output_dir
                    /\ Cardinality({f \in output_dir : f.name = k}) = 1)
    /\ [][api = "Video"
            => /\ Names(output_dir) \subseteq Names(output_dir')
               /\ \A f \in output_dir :
                    f \in output_dir'
                    \/ \E i \in 1..Len(written') :
                         i > Len(written) /\ written'[i].name = f.name]_vars

C20_Witness ==
    /\ api = "Video"
    /\ method = "save_frames"
    /\ pc = "done"
    /\ Len(paths) = 2
    /\ pulled = << <<0, 1>>, <<0>> >>
    /\ output_dir = {ImageFile(0, 2, 0), ImageFile(1, 1, 1),
                     ImageFile(MaxPulls, 0, 0)}

Next ==
    \/ VideoReader__init__
    \/ VideoReader__enter__
    \/ VideoReader_extract_frames
    \/ VideoReader_extract_frames_loop
    \/ VideoReader_extract_frames_return
    \/ VideoReader_generator
    \/ VideoReader__exit__
    \/ io_Video__init__
    \/ io_Video_extract_frames
    \/ io_Video_extract_frames_range
    \/ io_Video_extract_frames_loop
    \/ io_Video_extract_frames_end
    \/ io_VideoReader__exit__
    \/ io_Video_save_frames
    \/ io_VideoReader__next__
    \/ io_Video_save_frames_imwrite
    \/ Video__init__
    \/ Video_save_frames
    \/ Video_save_frames_imwrite
    \/ Video_save_frames_next
    \/ Video_extract_frames
    \/ Video_extract_frames_append

Spec == Init /\ [][Next]_vars
====
